---- MODULE Spec2Model ----
(***************************************************************************)
(* Model of init.py, the interactive setup assistant: the command runner   *)
(* ejecutar_comando, the two setup flows create_virtual_environment and    *)
(* install_requirements, and the menu loop show_menu.                      *)
(*                                                                         *)
(* A path is the sequence of its components (os.path.join concatenates,    *)
(* os.path.dirname drops the last one).  A command is the sequence of its  *)
(* tokens, the first being the path of the executable.  The filesystem is  *)
(* the set of paths that exist.  A console line is a sequence of           *)
(* characters.  Printed messages are kept as short tags.                   *)
(***************************************************************************)
EXTENDS Integers, Sequences, FiniteSets, TLC

VARIABLES
    platform,        \* sys.platform of this run
    fs,              \* the paths that exist on disk
    pc,              \* where control is: at the prompt, before one of the commands, or ended
    line,            \* the line the last input() returned, untrimmed
    flow,            \* what the current menu iteration dispatched to
    result,          \* what the dispatched flow returned
    calls,           \* the ejecutar_comando calls of the current menu iteration
    out,             \* the messages printed in the current menu iteration
    compile_command, \* install_requirements' local compile_command
    prev,            \* the previous menu iteration: its flow, its result, whether a call of it failed
    exitStatus       \* the process's exit status, "running" until it ends

vars == <<platform, fs, pc, line, flow, result, calls, out, compile_command, prev, exitStatus>>

(***************************************************************************)
(* Bounds                                                                  *)
(***************************************************************************)
MaxLineLen == 2

(***************************************************************************)
(* Paths and commands                                                      *)
(***************************************************************************)
VENV_DIR == ".venv"

Platforms == {"win32", "linux"}

SysExecutable == <<"sys.executable">>

RequirementsTxt == <<"requirements.txt">>

obtener_python_venv(plat) ==
    IF plat = "win32"
    THEN <<VENV_DIR, "Scripts", "python.exe">>
    ELSE <<VENV_DIR, "bin", "python">>

obtener_pip_venv(plat) == <<obtener_python_venv(plat), "-m", "pip">>

dirname(p) == SubSeq(p, 1, Len(p) - 1)

pip_compile_venv(plat) ==
    LET base == "pip-compile"
        name == IF plat = "win32" THEN base \o ".exe" ELSE base
    IN  Append(dirname(obtener_python_venv(plat)), name)

\* Variant: the test is made on a directory that is always there.
isdir_always(p, disk) == TRUE

isdir(p, disk) == p \in disk

exists(p, disk) == p \in disk

VenvCommand == <<SysExecutable, "-m", "venv", VENV_DIR>>

UpdateCommand(plat) == obtener_pip_venv(plat) \o <<"install", "--upgrade", "pip", "setuptools">>

PipToolsCommand(plat) == obtener_pip_venv(plat) \o <<"install", "pip-tools">>

CompileCommand(plat, disk) ==
    IF ~exists(pip_compile_venv(plat), disk)
    THEN <<obtener_python_venv(plat), "-m", "piptools", "compile", "requirements.in">>
    ELSE <<pip_compile_venv(plat), "requirements.in">>

InstallCommand(plat) == obtener_pip_venv(plat) \o <<"install", "-r", "requirements.txt">>

(***************************************************************************)
(* The child process: what subprocess.run can do with a command            *)
(***************************************************************************)
Failures == {"CalledProcessError", "FileNotFoundError", "TimeoutExpired", "PermissionError"}

Outcomes ==
    {[kind |-> k, stderr |-> FALSE] : k \in {"Exit0"} \cup Failures}
        \cup {[kind |-> "CalledProcessError", stderr |-> TRUE]}

\* An executable that is not on disk cannot be started; the running
\* interpreter itself is always there.
PossibleOutcomes(comando, disk) ==
    IF comando[1] # SysExecutable /\ ~exists(comando[1], disk)
    THEN {o \in Outcomes : o.kind = "FileNotFoundError"}
    ELSE Outcomes

\* The disk after the child ran.  venv creates the directory and its
\* interpreter, and may leave the directory alone behind when it is cut short;
\* pip install pip-tools writes the pip-compile script unless the package is
\* already satisfied; the compiler writes requirements.txt, or succeeds without
\* writing it.
ChildEffect(comando, o, plat, disk) ==
    IF comando = VenvCommand
    THEN IF o.kind = "Exit0"
         THEN {disk \cup {<<VENV_DIR>>, obtener_python_venv(plat)}}
         ELSE IF o.kind = "FileNotFoundError"
              THEN {disk}
              ELSE {disk, disk \cup {<<VENV_DIR>>}}
    ELSE IF comando = PipToolsCommand(plat) /\ o.kind = "Exit0"
    THEN {disk, disk \cup {pip_compile_venv(plat)}}
    ELSE IF comando = CompileCommand(plat, disk) /\ o.kind = "Exit0"
    THEN {disk, disk \cup {RequirementsTxt}}
    ELSE {disk}

(***************************************************************************)
(* ejecutar_comando                                                        *)
(***************************************************************************)
ExceptClauses == <<"CalledProcessError", "FileNotFoundError", "TimeoutExpired", "Exception">>

\* FileNotFoundError and PermissionError are OSErrors, and all four are Exceptions.
IsInstance(kind, clause) == clause = kind \/ clause = "Exception"

\* Variant: the final "except Exception" clause is missing.
Handler_narrow(kind) ==
    LET matching == {i \in 1..(Len(ExceptClauses) - 1) : IsInstance(kind, ExceptClauses[i])}
    IN  IF kind = "Exit0" \/ matching = {}
        THEN 0
        ELSE CHOOSE i \in matching : \A j \in matching : i <= j

\* The first except clause that catches the exception, 0 when there is none.
Handler(kind) ==
    LET matching == {i \in 1..Len(ExceptClauses) : IsInstance(kind, ExceptClauses[i])}
    IN  IF kind = "Exit0" \/ matching = {}
        THEN 0
        ELSE CHOOSE i \in matching : \A j \in matching : i <= j

\* Variant: the timeout clause returns True.
Returns_timeout_ok(clause) == clause \in {"none", "TimeoutExpired"}

\* What the try body (clause "none") and each except clause return.
Returns(clause) == clause = "none"

\* How many times subprocess.run is executed for one call.
Runs(o) == 1

ejecutar_comando(comando, success_message, error_message, o) ==
    LET h == Handler(o.kind)
        clause == IF h = 0 THEN "none" ELSE ExceptClauses[h]
        raised == o.kind # "Exit0" /\ h = 0
    IN  [raised |-> raised,
         ret |-> ~raised /\ Returns(clause),
         runs |-> Runs(o),
         printed |->
            <<"Executing">> \o
            (IF o.kind = "Exit0" THEN <<"Success! " \o success_message>>
             ELSE IF clause = "CalledProcessError"
                  THEN <<"Error! " \o error_message>>
                       \o (IF o.stderr THEN <<"Error details (stderr)">> ELSE <<>>)
             ELSE IF clause = "FileNotFoundError"
                  THEN <<"Error! The main command was not found", "Attempted command">>
             ELSE IF clause = "TimeoutExpired"
                  THEN <<"Error! Command timed out and was cancelled">>
             ELSE IF clause = "Exception"
                  THEN <<"An unexpected error occurred">>
             ELSE <<>>)]

\* The record of one call in calls.
Call(comando, o, r) == [comando |-> comando, kind |-> o.kind, ret |-> r.ret, runs |-> r.runs]

(***************************************************************************)
(* The console                                                             *)
(***************************************************************************)
Whitespace == {" "}

Chars == {"1", "2", "3", "4", " "}

Lines == UNION {[1..n -> Chars] : n \in 0..MaxLineLen}

RECURSIVE lstrip(_)
lstrip(s) == IF s # <<>> /\ Head(s) \in Whitespace THEN lstrip(Tail(s)) ELSE s

RECURSIVE rstrip(_)
rstrip(s) ==
    IF s # <<>> /\ s[Len(s)] \in Whitespace THEN rstrip(SubSeq(s, 1, Len(s) - 1)) ELSE s

strip(s) == rstrip(lstrip(s))

\* Variant: the option is matched on its first character.
Branch_prefix(option) ==
    IF option # <<>> /\ Head(option) = "1" THEN "create"
    ELSE IF option # <<>> /\ Head(option) = "2" THEN "install"
    ELSE IF option # <<>> /\ Head(option) = "3" THEN "exit"
    ELSE "invalid"

Branch(option) ==
    IF option = <<"1">> THEN "create"
    ELSE IF option = <<"2">> THEN "install"
    ELSE IF option = <<"3">> THEN "exit"
    ELSE "invalid"

Menu == <<"Python Project Setup Assistant">>

(***************************************************************************)
(* The decisions of the two flows                                          *)
(***************************************************************************)
\* Variant: validity is judged by the pip-compile script.
existing_venv_result_wrong_path(plat, disk) ==
    IF exists(pip_compile_venv(plat), disk) THEN "True" ELSE "False"

\* create_virtual_environment when the directory exists.
existing_venv_result(plat, disk) ==
    IF exists(obtener_python_venv(plat), disk) THEN "True" ELSE "False"

\* create_virtual_environment after the creation command.
after_create(created) == IF created THEN "create_upgrade" ELSE "menu"

\* Variant: a failed upgrade fails the flow.
create_result_strict(created, updated) == IF created /\ updated THEN "True" ELSE "False"

\* create_virtual_environment's return value once the upgrade command has run.
create_result(created, updated) == IF created THEN "True" ELSE "False"

\* verify_and_install_pip_compile's return value after its command.
verify_result(installed) == installed

\* Variant: the result of verify_and_install_pip_compile is not tested.
after_verify_ignored(ok) == "compile"

\* install_requirements after verify_and_install_pip_compile.
after_verify(ok) == IF ~ok THEN "menu" ELSE "compile"

\* Variant: the result of the compile command is not tested.
after_compile_unchecked(compiled, disk) ==
    IF exists(RequirementsTxt, disk) THEN "install_deps" ELSE "missing"

\* Variant: a missing requirements.txt ends the flow without a message.
after_compile_silent(compiled, disk) ==
    IF compiled /\ exists(RequirementsTxt, disk) THEN "install_deps" ELSE "failed"

\* install_requirements after the compile command.
after_compile(compiled, disk) ==
    IF ~compiled THEN "failed"
    ELSE IF exists(RequirementsTxt, disk) THEN "install_deps"
    ELSE "missing"

(***************************************************************************)
(* Initial states                                                          *)
(***************************************************************************)
DiskPaths(plat) ==
    {<<VENV_DIR>>, obtener_python_venv(plat), pip_compile_venv(plat), RequirementsTxt}

\* What lies inside the environment directory exists only if the directory does.
WellFormed(disk) == \A p \in disk : Len(p) > 1 => <<p[1]>> \in disk

NoFlow == [flow |-> "none", result |-> "none", failed |-> FALSE]

Init ==
    /\ platform \in Platforms
    /\ fs \in {d \in SUBSET DiskPaths(platform) : WellFormed(d)}
    /\ pc = "menu"
    /\ line = <<>>
    /\ flow = "none"
    /\ result = "none"
    /\ calls = <<>>
    /\ out = <<>>
    /\ compile_command = <<>>
    /\ prev = NoFlow
    /\ exitStatus = "running"

(***************************************************************************)
(* show_menu: one iteration of the loop up to the first child process      *)
(***************************************************************************)
\* An exception that nothing catches ends the process with status 1.
Crash ==
    /\ pc' = "crashed"
    /\ exitStatus' = "1"

create_virtual_environment_entry ==
    /\ flow' = "create"
    /\ UNCHANGED <<fs, compile_command, exitStatus>>
    /\ calls' = <<>>
    /\ IF isdir(<<VENV_DIR>>, fs)
       THEN /\ pc' = "menu"
            /\ result' = existing_venv_result(platform, fs)
            /\ out' = Menu \o <<"Directory already exists. Skipping creation.">>
                  \o (IF existing_venv_result(platform, fs) = "True"
                      THEN <<"Existing .venv seems valid.">>
                      ELSE <<"Existing .venv seems invalid">>)
       ELSE /\ pc' = "create_venv"
            /\ out' = Menu
            /\ result' = "pending"

install_requirements_entry ==
    /\ flow' = "install"
    /\ UNCHANGED <<fs, compile_command, exitStatus>>
    /\ calls' = <<>>
    /\ IF ~isdir(<<VENV_DIR>>, fs)
       THEN /\ pc' = "menu"
            /\ out' = Menu \o <<"Error: The virtual environment does not exist.">>
            /\ result' = "None"
       ELSE IF ~isdir(<<VENV_DIR>>, fs)
       THEN /\ pc' = after_verify(FALSE)
            /\ out' = Menu \o <<"Error: Virtual environment does not exist.">>
            /\ result' = "None"
       ELSE /\ pc' = "install_tool"
            /\ out' = Menu \o <<"Ensuring 'pip-tools' is installed in .venv",
                                "Attempting to install pip-tools directly into .venv">>
            /\ result' = "pending"

exit_entry ==
    /\ flow' = "exit"
    /\ result' = "none"
    /\ calls' = <<>>
    /\ out' = Menu \o <<"Thanks for using the Setup Assistant!">>
    /\ pc' = "exited"
    /\ exitStatus' = "0"
    /\ UNCHANGED <<fs, compile_command>>

invalid_entry ==
    /\ flow' = "none"
    /\ result' = "none"
    /\ calls' = <<>>
    /\ out' = Menu \o <<"Invalid option. Please select 1, 2, or 3.">>
    /\ pc' = "menu"
    /\ UNCHANGED <<fs, compile_command, exitStatus>>

show_menu ==
    /\ pc = "menu"
    /\ \E ln \in Lines :
        /\ line' = ln
        /\ prev' = [flow |-> flow, result |-> result,
                     failed |-> \E i \in DOMAIN calls : ~calls[i].ret]
        /\ UNCHANGED platform
        /\ LET b == Branch(strip(ln))
           IN  CASE b = "create" -> create_virtual_environment_entry
                 [] b = "install" -> install_requirements_entry
                 [] b = "exit" -> exit_entry
                 [] OTHER -> invalid_entry

(***************************************************************************)
(* create_virtual_environment: its two commands                            *)
(***************************************************************************)
create_venv ==
    /\ pc = "create_venv"
    /\ \E o \in PossibleOutcomes(VenvCommand, fs) :
        LET r == ejecutar_comando(VenvCommand, "Virtual environment created successfully.",
                                  "Could not create the virtual environment.", o)
        IN  /\ fs' \in ChildEffect(VenvCommand, o, platform, fs)
            /\ calls' = Append(calls, Call(VenvCommand, o, r))
            /\ IF r.raised
               THEN /\ Crash
                    /\ out' = out \o r.printed
                    /\ UNCHANGED result
               ELSE /\ UNCHANGED exitStatus
                    /\ pc' = after_create(r.ret)
                    /\ IF after_create(r.ret) = "create_upgrade"
                       THEN /\ out' = out \o r.printed
                                  \o <<"Updating pip and setuptools inside .venv">>
                            /\ UNCHANGED result
                       ELSE /\ out' = out \o r.printed
                            /\ result' = "False"
    /\ UNCHANGED <<platform, line, flow, compile_command, prev>>

create_upgrade ==
    /\ pc = "create_upgrade"
    /\ \E o \in PossibleOutcomes(UpdateCommand(platform), fs) :
        LET r == ejecutar_comando(UpdateCommand(platform), "Pip and setuptools updated.",
                                  "Could not update pip/setuptools.", o)
        IN  /\ fs' \in ChildEffect(UpdateCommand(platform), o, platform, fs)
            /\ calls' = Append(calls, Call(UpdateCommand(platform), o, r))
            /\ out' = out \o r.printed
            /\ IF r.raised
               THEN /\ Crash
                    /\ UNCHANGED result
               ELSE /\ UNCHANGED exitStatus
                    /\ pc' = "menu"
                    /\ result' = create_result(TRUE, r.ret)
    /\ UNCHANGED <<platform, line, flow, compile_command, prev>>

(***************************************************************************)
(* install_requirements: its three commands                                *)
(***************************************************************************)
\* verify_and_install_pip_compile's command, then the choice of compile_command.
install_tool ==
    /\ pc = "install_tool"
    /\ \E o \in PossibleOutcomes(PipToolsCommand(platform), fs) :
        LET r == ejecutar_comando(PipToolsCommand(platform),
                                  "'pip-tools' has been installed INSIDE .venv.",
                                  "Could not install 'pip-tools' inside .venv.", o)
        IN  /\ fs' \in ChildEffect(PipToolsCommand(platform), o, platform, fs)
            /\ calls' = Append(calls, Call(PipToolsCommand(platform), o, r))
            /\ IF r.raised
               THEN /\ Crash
                    /\ out' = out \o r.printed
                    /\ UNCHANGED <<result, compile_command>>
               ELSE /\ UNCHANGED exitStatus
                    /\ pc' = after_verify(verify_result(r.ret))
                    /\ IF after_verify(verify_result(r.ret)) = "compile"
                       THEN /\ compile_command' = CompileCommand(platform, fs')
                            /\ out' = out \o r.printed
                                  \o (IF ~verify_result(r.ret)
                                      THEN <<"Could not ensure 'pip-tools' installation in .venv.">>
                                      ELSE <<>>)
                                  \o (IF ~exists(pip_compile_venv(platform), fs')
                                      THEN <<"Warning: Could not find 'pip-compile' executable.">>
                                      ELSE <<>>)
                                  \o <<"Step 1: Compiling requirements.in">>
                            /\ UNCHANGED result
                       ELSE /\ out' = out \o r.printed
                                  \o (IF ~verify_result(r.ret)
                                      THEN <<"Could not ensure 'pip-tools' installation in .venv.">>
                                      ELSE <<>>)
                            /\ result' = "None"
                            /\ UNCHANGED compile_command
    /\ UNCHANGED <<platform, line, flow, prev>>

compile ==
    /\ pc = "compile"
    /\ \E o \in PossibleOutcomes(compile_command, fs) :
        LET r == ejecutar_comando(compile_command,
                                  "requirements.txt compiled/updated successfully INSIDE .venv.",
                                  "Could not compile 'requirements.in'.", o)
        IN  /\ fs' \in ChildEffect(compile_command, o, platform, fs)
            /\ calls' = Append(calls, Call(compile_command, o, r))
            /\ IF r.raised
               THEN /\ Crash
                    /\ out' = out \o r.printed
                    /\ UNCHANGED result
               ELSE /\ UNCHANGED exitStatus
                    /\ LET d == after_compile(r.ret, fs')
                       IN  CASE d = "failed" ->
                                  /\ out' = out \o r.printed
                                  /\ pc' = "menu"
                                  /\ result' = "None"
                             [] d = "install_deps" ->
                                  /\ out' = out \o r.printed
                                        \o <<"Step 2: Installing from requirements.txt">>
                                  /\ pc' = "install_deps"
                                  /\ UNCHANGED result
                             [] OTHER ->
                                  /\ out' = out \o r.printed
                                        \o <<"Step 2: Installing from requirements.txt",
                                             "Cannot install. The 'requirements.txt' file was not generated">>
                                  /\ pc' = "menu"
                                  /\ result' = "None"
    /\ UNCHANGED <<platform, line, flow, compile_command, prev>>

install_deps ==
    /\ pc = "install_deps"
    /\ \E o \in PossibleOutcomes(InstallCommand(platform), fs) :
        LET r == ejecutar_comando(InstallCommand(platform),
                                  "All dependencies installed successfully INSIDE .venv.",
                                  "Could not install packages from 'requirements.txt'.", o)
        IN  /\ fs' \in ChildEffect(InstallCommand(platform), o, platform, fs)
            /\ calls' = Append(calls, Call(InstallCommand(platform), o, r))
            /\ out' = out \o r.printed
            /\ IF r.raised
               THEN /\ Crash
                    /\ UNCHANGED result
               ELSE /\ UNCHANGED exitStatus
                    /\ pc' = "menu"
                    /\ result' = "None"
    /\ UNCHANGED <<platform, line, flow, compile_command, prev>>

Next ==
    \/ show_menu
    \/ create_venv
    \/ create_upgrade
    \/ install_tool
    \/ compile
    \/ install_deps

Spec == Init /\ [][Next]_vars

\* A child process ends or is cancelled at its 120 s timeout, so a flow that
\* has started always takes its next step.
FlowStep == create_venv \/ create_upgrade \/ install_tool \/ compile \/ install_deps

FairSpec == Spec /\ WF_vars(FlowStep)

(***************************************************************************)
(* Vocabulary of the properties                                            *)
(***************************************************************************)
Printed(msg) == \E i \in DOMAIN out : out[i] = msg

VenvExists == <<VENV_DIR>> \in fs

InterpreterExists == obtener_python_venv(platform) \in fs

IsCompileCommand(c) ==
    \/ c = <<pip_compile_venv(platform), "requirements.in">>
    \/ c = <<obtener_python_venv(platform), "-m", "piptools", "compile", "requirements.in">>

IsInstallerCommand(c) == c = obtener_pip_venv(platform) \o <<"install", "-r", "requirements.txt">>

IsPipToolsCommand(c) == c = obtener_pip_venv(platform) \o <<"install", "pip-tools">>

IsUpgradeCommand(c) ==
    c = obtener_pip_venv(platform) \o <<"install", "--upgrade", "pip", "setuptools">>

IsVenvCommand(c) == c = <<SysExecutable, "-m", "venv", VENV_DIR>>

Failed(c) == c.kind # "Exit0"

\* The menu iteration has run to its end and control is back at the prompt.
Returned == pc = "menu"

(***************************************************************************)
(* C1: when install_requirements is invoked and the environment directory  *)
(* does not exist, the flow ends at the prerequisite check: control is     *)
(* back at the prompt with the guidance message printed, no                *)
(* ejecutar_comando call made and the filesystem unchanged.                *)
(***************************************************************************)
C1_AbortsWithoutVenv ==
    [][(pc = "menu" /\ flow' = "install" /\ ~VenvExists)
        => /\ pc' = "menu"
           /\ calls' = <<>>
           /\ fs' = fs
           /\ \E i \in DOMAIN out' : out'[i] = "Error: The virtual environment does not exist."]_vars

C1_Witness ==
    /\ Returned /\ flow = "install" /\ ~VenvExists /\ calls = <<>>
    /\ Printed("Error: The virtual environment does not exist.")
    /\ RequirementsTxt \in fs

(***************************************************************************)
(* C2: in one run of install_requirements, once the compile command        *)
(* (pip-compile or python -m piptools compile) has ended in a failure, the *)
(* installer command pip install -r requirements.txt is not invoked and is *)
(* not about to be, whether or not requirements.txt is on disk.            *)
(***************************************************************************)
C2_NoInstallAfterFailedCompile ==
    \A i \in DOMAIN calls :
        (IsCompileCommand(calls[i].comando) /\ Failed(calls[i]))
            => /\ pc # "install_deps"
               /\ \A j \in DOMAIN calls : ~IsInstallerCommand(calls[j].comando)

C2_Witness ==
    /\ Returned /\ flow = "install" /\ Len(calls) = 2
    /\ IsCompileCommand(calls[2].comando) /\ calls[2].kind = "TimeoutExpired"
    /\ RequirementsTxt \in fs

(***************************************************************************)
(* C3: when a run of install_requirements has returned after a successful  *)
(* compile command, either the installer command was invoked or the        *)
(* inconsistency message was printed; and when requirements.txt is absent  *)
(* it is the message, with no installer invocation.                        *)
(***************************************************************************)
C3_MissingLockFileReported ==
    (Returned /\ flow = "install" /\ Len(calls) >= 2 /\ ~Failed(calls[2]))
        => /\ \/ \E j \in DOMAIN calls : IsInstallerCommand(calls[j].comando)
              \/ Printed("Cannot install. The 'requirements.txt' file was not generated")
           /\ RequirementsTxt \notin fs
                => /\ Printed("Cannot install. The 'requirements.txt' file was not generated")
                   /\ \A j \in DOMAIN calls : ~IsInstallerCommand(calls[j].comando)

C3_Witness ==
    /\ Returned /\ flow = "install" /\ Len(calls) = 2
    /\ IsCompileCommand(calls[2].comando) /\ ~Failed(calls[2])
    /\ RequirementsTxt \notin fs
    /\ Printed("Cannot install. The 'requirements.txt' file was not generated")

(***************************************************************************)
(* C4: when create_virtual_environment has just returned success and the   *)
(* interpreter executable is present, invoking it again reports the        *)
(* environment valid and returns success at once, with no ejecutar_comando *)
(* call, the filesystem unchanged and the process still running.           *)
(***************************************************************************)
C4_CreateIdempotent ==
    [][(pc = "menu" /\ flow = "create" /\ result = "True" /\ InterpreterExists
            /\ flow' = "create")
        => /\ pc' = "menu"
           /\ result' = "True"
           /\ calls' = <<>>
           /\ fs' = fs
           /\ exitStatus' = "running"
           /\ \E i \in DOMAIN out' : out'[i] = "Existing .venv seems valid."]_vars

\* The second invocation, after a first one whose upgrade command failed.
C4_Witness ==
    /\ Returned /\ flow = "create" /\ result = "True" /\ calls = <<>>
    /\ prev.flow = "create" /\ prev.result = "True"
    /\ prev.failed
    /\ Printed("Existing .venv seems valid.")

(***************************************************************************)
(* C5: control is never about to invoke a command that runs inside the     *)
(* environment (toolchain upgrade, pip-tools install, compile, dependency  *)
(* install) while the interpreter executable is absent.                    *)
(***************************************************************************)
C5_InterpreterBeforeDependentStep ==
    pc \in {"create_upgrade", "install_tool", "compile", "install_deps"} => InterpreterExists

(***************************************************************************)
(* C6: every ejecutar_comando call returned True exactly when the child    *)
(* exited with code zero, executed the command once, and let no exception  *)
(* through to end the process.                                             *)
(***************************************************************************)
C6_RunnerClassifies ==
    /\ \A i \in DOMAIN calls :
        /\ calls[i].ret <=> calls[i].kind = "Exit0"
        /\ calls[i].runs = 1
    /\ pc # "crashed"
    /\ exitStatus # "1"

C6_Witness ==
    /\ Returned /\ flow = "install" /\ Len(calls) = 3
    /\ calls[3].kind = "PermissionError" /\ ~calls[3].ret
    /\ Printed("An unexpected error occurred")

(***************************************************************************)
(* C7: the calls of one run of install_requirements are a prefix of        *)
(* (install pip-tools, compile, install dependencies), each made only      *)
(* after the one before it succeeded; a failed pip-tools install is the    *)
(* run's only call and the run has returned.                               *)
(***************************************************************************)
C7_StepsGateEachOther ==
    flow = "install" =>
        /\ Len(calls) <= 3
        /\ \A i \in DOMAIN calls :
            /\ i = 1 => IsPipToolsCommand(calls[i].comando)
            /\ i = 2 => IsCompileCommand(calls[i].comando)
            /\ i = 3 => IsInstallerCommand(calls[i].comando)
            /\ i > 1 => ~Failed(calls[i - 1])
        /\ (calls # <<>> /\ Failed(calls[1])) => (Len(calls) = 1 /\ Returned)
        /\ pc = "compile" => (Len(calls) = 1 /\ ~Failed(calls[1]))
        /\ pc = "install_deps" => (Len(calls) = 2 /\ ~Failed(calls[2]))

C7_Witness ==
    /\ Returned /\ flow = "install" /\ Len(calls) = 1 /\ VenvExists /\ InterpreterExists
    /\ IsPipToolsCommand(calls[1].comando) /\ calls[1].kind = "CalledProcessError"
    /\ Printed("Could not ensure 'pip-tools' installation in .venv.")

(***************************************************************************)
(* C8: a line that, trimmed, is none of 1, 2, 3 makes show_menu print the  *)
(* invalid-option message and prompt again: no flow is dispatched, no      *)
(* ejecutar_comando call is made, the filesystem is unchanged and the      *)
(* process keeps running.                                                  *)
(***************************************************************************)
C8_InvalidOptionReprompts ==
    [][(pc = "menu" /\ strip(line') \notin {<<"1">>, <<"2">>, <<"3">>})
        => /\ pc' = "menu"
           /\ flow' = "none"
           /\ calls' = <<>>
           /\ fs' = fs
           /\ exitStatus' = "running"
           /\ \E i \in DOMAIN out' : out'[i] = "Invalid option. Please select 1, 2, or 3."]_vars

C8_Witness ==
    /\ Returned /\ flow = "none" /\ line # <<>> /\ strip(line) # line /\ strip(line) # <<>>
    /\ Printed("Invalid option. Please select 1, 2, or 3.")
    /\ prev.flow = "install"

(***************************************************************************)
(* C9: the process ends only by option 3 and then with status 0; there is  *)
(* no other exit status; and whatever the commands of a flow do, control   *)
(* comes back to the prompt.                                               *)
(***************************************************************************)
C9_ExitOnlyByOption3 ==
    /\ [](pc \in {"exited", "crashed"} => (pc = "exited" /\ strip(line) = <<"3">>))
    /\ [](exitStatus = (IF pc = "exited" THEN "0" ELSE "running"))
    /\ (pc \notin {"menu", "exited"}) ~> (pc = "menu")

C9_Witness ==
    /\ pc = "exited" /\ exitStatus = "0" /\ strip(line) # line
    /\ prev.flow = "install" /\ prev.failed

(***************************************************************************)
(* C10: in create_virtual_environment with the directory absent, the       *)
(* upgrade command is invoked exactly when the creation command succeeded, *)
(* and the flow returns True exactly when the creation command succeeded,  *)
(* whatever the upgrade command does.                                      *)
(***************************************************************************)
C10_ResultIsCreationResult ==
    (flow = "create" /\ calls # <<>>) =>
        /\ IsVenvCommand(calls[1].comando)
        /\ Len(calls) <= 2
        /\ Len(calls) = 2 => (IsUpgradeCommand(calls[2].comando) /\ ~Failed(calls[1]))
        /\ pc = "create_upgrade" <=> (Len(calls) = 1 /\ ~Failed(calls[1]))
        /\ Returned =>
            /\ result = "True" <=> ~Failed(calls[1])
            /\ result = "False" <=> Failed(calls[1])
            /\ Len(calls) = 2 <=> ~Failed(calls[1])

C10_Witness ==
    /\ Returned /\ flow = "create" /\ Len(calls) = 2
    /\ ~Failed(calls[1]) /\ calls[2].kind = "CalledProcessError"
    /\ result = "True"

====
